---------------------------- MODULE Spec2Model ----------------------------
(***************************************************************************)
(* Model of the Letterboxd list scraper (listscraper/scrape_functions.py)  *)
(* and of the diary export script (letterboxdpy/diary.py).                 *)
(*                                                                         *)
(* Python values are modelled as records [t, n, s]: t is the type tag, n   *)
(* the numeric payload and s the textual payload.  Texts whose characters  *)
(* matter (the fans text, the histogram bar texts) are sequences of        *)
(* one-character strings.  A Python dict is a function from its keys.      *)
(***************************************************************************)
EXTENDS Integers, Sequences, FiniteSets, TLC

VARIABLES
    \* ---- scrape_list / scrape_page / scrape_diary ----
    pc,             \* position in scrape_list
    list_type,      \* argument list_type
    page_options,   \* argument page_options: [star, pages], "*" or a list of pages
    concat,         \* argument concat
    ext,            \* argument output_file_extension
    list_url,       \* local list_url of the full crawl (a URL number)
    idx,            \* position of the for loops over the requested pages
    list_films,     \* local list_films (films of scrape_diary in diary mode)
    err,            \* the exception the call ended with ("none": none)
    out_file,       \* scraper_outputs/<list_type>_output.csv: "none", "written", "partial"
    fetched,        \* history: the collection-page fetches, in order, each with
                    \* what was served and what scrape_page returned for it
    \* ---- scrape_film on one <li> item ----
    fpc,            \* "idle", "input", "done"
    film,           \* the <li> item and the documents its fetches return
    not_found,      \* the sentinel: np.nan for ".csv", else None
    film_out,       \* outcome of scrape_film(film, not_found)
    \* ---- diary.py __main__ ----
    dpc,            \* "idle", "input", "done"
    raw,            \* what Diary(username).entries yields
    rows,           \* rows handed to writer.writerow, in order
    dfile,          \* output_csv/diary_<user>.csv: "none", "written"
    dmsg            \* the message printed at the end

vars == <<pc, list_type, page_options, concat, ext, list_url, idx, list_films,
          err, out_file, fetched, fpc, film, not_found, film_out, dpc, raw, rows, dfile, dmsg>>

crawlVars == <<pc, list_type, page_options, concat, ext, list_url, idx,
               list_films, err, out_file, fetched>>
filmVars  == <<fpc, film, not_found, film_out>>
diaryVars == <<dpc, raw, rows, dfile, dmsg>>

---------------------------------------------------------------------------
(* Bounds of the model *)

\* Nodes that may be missing or empty at once in the inputs of scrape_film.
MaxMissing == 2
\* Length of the enumerated rating-histogram bar lists.
MaxBars == 3
\* Length of the enumerated fans texts.
MaxFansLen == 5
\* Collection pages one call may fetch (caps the full crawl's while loop).
MaxFetches == 2
\* Distinct collection-page URLs of the site.
NumUrls == 2
\* <li> items on one collection page.
MaxItems == 2
\* Requested pages in explicit-pages mode.
MaxPages == 2
\* Keys (or items) of the enumerated raw diary structures.
MaxTop == 2
\* Items of a list or of an inner mapping of the raw diary structures.
MaxSub == 2

---------------------------------------------------------------------------
(* Python values *)

V(t, n, s) == [t |-> t, n |-> n, s |-> s]
VInt(n)    == V("int", n, "")
VStr(s)    == V("str", 0, s)
VList(n, s) == V("list", n, s)      \* a list of n items named s
VFloat(n, s) == V("float", n, s)    \* float: n halves, or the text s parsed
NaN        == V("nan", 0, "")       \* np.nan
None       == V("none", 0, "")      \* None
VBool(b)   == V("bool", IF b THEN 1 ELSE 0, "")
Absent     == V("absent", 0, "")    \* the key is not in the dict

Digits == {"0", "1", "2", "3", "4", "5", "6", "7", "8", "9"}

DigitVal(c) ==
    CASE c = "0" -> 0 [] c = "1" -> 1 [] c = "2" -> 2 [] c = "3" -> 3
      [] c = "4" -> 4 [] c = "5" -> 5 [] c = "6" -> 6 [] c = "7" -> 7
      [] c = "8" -> 8 [] c = "9" -> 9

RECURSIVE DigitsToInt(_)
\* int(s) of a string of digits s (0 for the empty prefix of the recursion).
DigitsToInt(s) ==
    IF s = <<>> THEN 0
    ELSE 10 * DigitsToInt(SubSeq(s, 1, Len(s) - 1)) + DigitVal(s[Len(s)])

IsDigits(s) == Len(s) > 0 /\ \A i \in 1..Len(s) : s[i] \in Digits

RECURSIVE Flatten(_)
\* ''.join(groups)
Flatten(groups) ==
    IF groups = <<>> THEN <<>> ELSE Head(groups) \o Flatten(Tail(groups))


---------------------------------------------------------------------------
(* The fans text: re.findall(r'\d+.\d+K?|\d+K?', fans)[0] and its conversion *)

\* Characters of the enumerated texts.  "x" stands for any letter other than
\* K, "," for any separator; a line break, "_" and "e" are left out ("." of
\* the pattern matches every character of this alphabet).
FansAlphabet == {"1", "2", ",", ".", "K", "x"}

RECURSIVE DigitRun(_, _)
\* Number of consecutive digits of s from position i on.
DigitRun(s, i) ==
    IF i <= Len(s) /\ s[i] \in Digits THEN 1 + DigitRun(s, i + 1) ELSE 0

\* End (exclusive) of an optional K at position e.
OptK(s, e) == IF e <= Len(s) /\ s[e] = "K" THEN e + 1 ELSE e

\* \d+.\d+K? at position p: the lengths k of the first \d+ that let the rest
\* match.  The first \d+ is greedy, so the longest such k is the match.
Alt1Lens(s, p) ==
    {k \in 1..DigitRun(s, p) : p + k <= Len(s) /\ DigitRun(s, p + k + 1) >= 1}

Alt1End(s, p) ==
    LET k == CHOOSE k \in Alt1Lens(s, p) : \A j \in Alt1Lens(s, p) : j <= k
    IN  OptK(s, p + k + 1 + DigitRun(s, p + k + 1))

\* \d+K? at position p.
Alt2End(s, p) == OptK(s, p + DigitRun(s, p))

\* Positions where a match can start: both alternatives start with a digit.
MatchStarts(s) == {p \in 1..Len(s) : s[p] \in Digits}

\* The first element of findall's result; defined when MatchStarts(s) # {}.
FirstMatch(s) ==
    LET p == CHOOSE p \in MatchStarts(s) : \A q \in MatchStarts(s) : p <= q
        e == IF Alt1Lens(s, p) # {} THEN Alt1End(s, p) ELSE Alt2End(s, p)
    IN  SubSeq(s, p, e - 1)

HasChar(s, c) == \E i \in 1..Len(s) : s[i] = c

RECURSIVE Pow10(_)
Pow10(n) == IF n = 0 THEN 1 ELSE 10 * Pow10(n - 1)

\* Position of the only "." of x when x is digits "." digits, else 0.
DotPos(x) ==
    IF \E i \in 2..(Len(x) - 1) :
          /\ x[i] = "."
          /\ IsDigits(SubSeq(x, 1, i - 1))
          /\ IsDigits(SubSeq(x, i + 1, Len(x)))
    THEN CHOOSE i \in 2..(Len(x) - 1) : x[i] = "."
    ELSE 0

\* float(x) succeeds: over FansAlphabet, x is digits or digits "." digits
\* (the match never ends in "." and never starts with one).
IsFloat(x) == IsDigits(x) \/ DotPos(x) # 0

\* int(float(x) * 1000) for IsFloat(x).  On the enumerated texts the double
\* product equals the exact decimal product.
FloatTimes1000(x) ==
    IF IsDigits(x) THEN DigitsToInt(x) * 1000
    ELSE LET i == DotPos(x)
             a == DigitsToInt(SubSeq(x, 1, i - 1))
             b == SubSeq(x, i + 1, Len(x))
         IN  ((a * Pow10(Len(b)) + DigitsToInt(b)) * 1000) \div Pow10(Len(b))

\* Lines 260-270: the value stored under "Fans" for the text of the
\* all-link anchor.  Every exception inside the try yields 0.
ParseFans(text) ==
    IF MatchStarts(text) = {} THEN 0                       \* [0]: IndexError
    ELSE LET fans == FirstMatch(text)
         IN  IF HasChar(fans, "K")                         \* "." and "K" in fans
             THEN LET x == SubSeq(fans, 1, Len(fans) - 1)  \* fans[:-1]
                  IN  IF IsFloat(x) THEN FloatTimes1000(x) ELSE 0
             ELSE IF IsDigits(fans) THEN DigitsToInt(fans) ELSE 0

---------------------------------------------------------------------------
(* scrape_film: the documents of one film *)

\* The three secondary resources scrape_film fetches.
Secondaries == {"detail", "stats", "hist"}

\* Nodes of the film page (film_soup).
DetailNodes == {"title", "releaseyear", "director", "cast", "avg_rating",
                "genres", "runtime", "countries", "languages", "description",
                "studios"}
\* Anchors of the stats fragment (stats_soup).
StatsNodes == {"watched", "inlists", "liked"}
\* The all-link anchor of the rating-histogram fragment (hist_soup).
HistNodes == {"fans"}
Nodes == DetailNodes \cup StatsNodes \cup HistNodes

SecondaryOf(n) ==
    IF n \in DetailNodes THEN "detail"
    ELSE IF n \in StatsNodes THEN "stats" ELSE "hist"

(* A film input f:
     f.link    how the <li> carries its link: "ok", "nodiv" (no <div>),
               "noattr" (no data-target-link attribute)
     f.owner   the owner rating of the <li>: "attr0", "attr8" (attribute
               data-owner-rating of '0', '8'), "stars", "badstars" (no
               attribute, last <span> holding star glyphs, other text),
               "nospan" (no attribute and no <span>)
     f.missing nodes absent from the documents
     f.empty   nodes present with empty content (no text, no anchors)
     f.failed  secondaries answered with a non-success status: the body is
               an error page that holds none of the nodes
     f.broken  secondaries whose requests.get raises
     f.fans    text of the all-link anchor
     f.bars    texts of the li.rating-histogram-bar items, in order
     f.slug    the film's slug                                             *)
Present(f, n) == n \notin f.missing /\ SecondaryOf(n) \notin f.failed
Filled(f, n)  == Present(f, n) /\ n \notin f.empty

\* hist_soup.find_all("li", {'class': 'rating-histogram-bar'})
BarsOf(f) == IF "hist" \in f.failed THEN <<>> ELSE f.bars

\* val2stars((i+1)/2, not_found) for the i-th bar (from 0): the glyph text of
\* the increment ("h" is the half star); defined for the 10 valid increments.
StarKeys == <<"h", "*", "*h", "**", "**h", "***", "***h", "****", "****h", "*****">>
val2starsFails(i) == i \notin 0..(Len(StarKeys) - 1)
val2stars(i) == StarKeys[i + 1]

\* stars2val(starval, not_found): a value for star glyphs, else the sentinel.
stars2val(owner, nf) ==
    IF owner = "stars" THEN VFloat(7, "") ELSE nf

\* r.text.strip(" ")
RECURSIVE StripSpaces(_)
StripSpaces(s) ==
    IF s = <<>> THEN s
    ELSE IF Head(s) = " " THEN StripSpaces(Tail(s))
    ELSE IF s[Len(s)] = " " THEN StripSpaces(SubSeq(s, 1, Len(s) - 1))
    ELSE s

RECURSIVE DigitGroups(_)
\* re.findall(r'\d+', s): the maximal runs of digits, in order.
DigitGroups(s) ==
    IF s = <<>> THEN <<>>
    ELSE IF Head(s) \in Digits
         THEN LET r == DigitRun(s, 1)
              IN  <<SubSeq(s, 1, r)>> \o DigitGroups(SubSeq(s, r + 1, Len(s)))
         ELSE DigitGroups(Tail(s))

\* re.findall(r'\d+', string)[:-1]
AllButLast(q) == IF q = <<>> THEN q ELSE SubSeq(q, 1, Len(q) - 1)

\* Lines 283-284 for one bar text: the digits int() is given.
BarDigits(string) == Flatten(AllButLast(DigitGroups(string)))

\* The count stored for one bar text (lines 280-285); BarRaises: int('').
BarRaises(text) ==
    LET string == StripSpaces(text)
    IN  string # <<>> /\ BarDigits(string) = <<>>
BarCount(text) ==
    LET string == StripSpaces(text)
    IN  IF string = <<>> THEN 0 ELSE DigitsToInt(BarDigits(string))

\* tot_ratings = Nratings in place of line 286: the total is overwritten.
AddRatingsOverwrites(tot, text) ==
    IF StripSpaces(text) = <<>> THEN tot ELSE BarCount(text)

\* tot_ratings += Nratings (line 286) for one bar text; an empty bar adds
\* nothing (line 281).
AddRatings(tot, text) ==
    IF StripSpaces(text) = <<>> THEN tot ELSE tot + BarCount(text)

RECURSIVE HistLoop(_, _, _, _)
\* Lines 277-286: the for loop from bar i (from 1) on, with the dict d and
\* the total tot built so far.
HistLoop(bars, i, d, tot) ==
    IF i > Len(bars) THEN [exc |-> "none", dict |-> d, tot |-> tot]
    ELSE IF val2starsFails(i - 1)
         THEN [exc |-> "InvalidRating", dict |-> d, tot |-> tot]
    ELSE IF BarRaises(bars[i])
         THEN [exc |-> "ValueError", dict |-> d, tot |-> tot]
    ELSE HistLoop(bars, i + 1,
                  (val2stars(i - 1) :> VInt(BarCount(bars[i]))) @@ d,
                  AddRatings(tot, bars[i]))

\* Lines 273-294: the bucket keys and Total_ratings.
Histogram(bars) ==
    LET h == IF Len(bars) # 0
             THEN HistLoop(bars, 1, <<>>, 0)
             ELSE [exc |-> "none",
                   dict |-> [k \in {val2stars(i) : i \in 0..9} |-> VInt(0)],
                   tot |-> 0]
    IN  [exc |-> h.exc,
         dict |-> ("Total_ratings" :> VInt(h.tot)) @@ h.dict]

\* Lines 168-181: Owner_rating.
OwnerRating(f, nf) ==
    CASE f.owner = "attr0" -> nf
      [] f.owner = "attr8" -> VFloat(8, "")
      [] f.owner \in {"stars", "badstars"} -> stars2val(f.owner, nf)
      [] OTHER -> nf

\* Lines 131-233: the fields read from the film page, without the two that
\* are read outside a try (Film_title, Director).
DetailFields(f, nf) ==
    [Release_year |-> IF Filled(f, "releaseyear") THEN VInt(1999) ELSE nf,
     Cast |-> IF Filled(f, "cast") THEN VList(2, "cast")
              ELSE IF Present(f, "cast") THEN VList(0, "cast") ELSE nf,
     Average_rating |-> IF Filled(f, "avg_rating") THEN VFloat(0, "3.85")
                        ELSE nf,
     Owner_rating |-> OwnerRating(f, nf),
     Genres |-> IF Filled(f, "genres") THEN VList(2, "genres")
                ELSE IF Present(f, "genres") THEN VList(0, "genres")
                ELSE nf,
     Runtime |-> IF Filled(f, "runtime") THEN VInt(120) ELSE nf,
     Countries |-> IF Filled(f, "countries") THEN VList(1, "countries")
                   ELSE nf,
     Original_language |-> IF Filled(f, "languages") THEN VStr("language")
                           ELSE nf,
     Spoken_languages |-> IF Filled(f, "languages") THEN VList(1, "languages")
                          ELSE nf,
     Description |-> IF Filled(f, "description") THEN VStr("description")
                     ELSE IF Present(f, "description") THEN VStr("")
                     ELSE nf,
     Studios |-> IF Filled(f, "studios") THEN VList(1, "studios")
                 ELSE nf]

\* Lines 132 and 148-151.
TitleDirector(f, nf) ==
    [Film_title |-> IF Filled(f, "title") THEN VStr("title") ELSE VStr(""),
     Director |-> IF Filled(f, "director") THEN VStr("director") ELSE nf]

\* Lines 240-253.
StatsFields(f) ==
    [Watches |-> VInt(1200), List_appearances |-> VInt(34), Likes |-> VInt(56)]

\* The first statement of scrape_film that raises, "none" when none does.
FilmException(f) ==
    CASE f.link = "nodiv" -> "AttributeError"            \* line 126
      [] f.link = "noattr" -> "TypeError"                \* line 126
      [] "detail" \in f.broken -> "ConnectionError"      \* line 128
      [] ~Present(f, "title") -> "AttributeError"        \* line 132
      [] ~Present(f, "director") -> "AttributeError"     \* line 148
      [] "stats" \in f.broken -> "ConnectionError"       \* line 237
      [] ~Present(f, "watched") -> "TypeError"           \* line 241
      [] ~Filled(f, "watched") -> "ValueError"           \* line 243
      [] ~Present(f, "inlists") -> "TypeError"           \* line 246
      [] ~Filled(f, "inlists") -> "ValueError"           \* line 248
      [] ~Present(f, "liked") -> "TypeError"             \* line 251
      [] ~Filled(f, "liked") -> "ValueError"             \* line 253
      [] "hist" \in f.broken -> "ConnectionError"        \* line 256
      [] OTHER -> Histogram(BarsOf(f)).exc               \* lines 279, 284

\* Lines 259-271.
FansOf(f) == IF Present(f, "fans") THEN ParseFans(f.fans) ELSE 0

\* scrape_film(film_html, not_found): [exc, dict]; exc = "none" when it
\* returns film_dict = dict.
scrape_film(f, nf) ==
    LET exc == FilmException(f)
    IN  IF exc # "none" THEN [exc |-> exc, dict |-> <<>>]
        ELSE [exc |-> "none",
              dict |-> DetailFields(f, nf)
                       @@ TitleDirector(f, nf)
                       @@ StatsFields(f)
                       @@ ("Fans" :> VInt(FansOf(f)))
                       @@ Histogram(BarsOf(f)).dict
                       @@ ("Film_URL" :> V("str", f.slug, "film_url"))]

---------------------------------------------------------------------------
(* Inputs of scrape_film *)

\* Texts of one histogram bar: "", " ", "2 x 1%", "1,0 x 5%", "3 x".
BarTexts == { <<>>,
              <<" ">>,
              <<"2", " ", "x", " ", "1", "%">>,
              <<"1", ",", "0", " ", "x", " ", "5", "%">>,
              <<"3", " ", "x">> }

SeqsUpTo(S, n) == UNION {[1..k -> S] : k \in 0..n}

\* A full histogram: the 10 bars of a released film.
TenBars == [i \in 1..10 |-> IF i % 2 = 1 THEN <<"2", " ", "x", " ", "1", "%">>
                            ELSE IF i = 4 THEN <<>>
                            ELSE <<"1", ",", "0", " ", "x", " ", "5", "%">>]
\* One bar more than the rating scale has increments.
ElevenBars == TenBars \o << <<"2", " ", "x", " ", "1", "%">> >>

BarLists == SeqsUpTo(BarTexts, MaxBars) \cup {TenBars, ElevenBars}

\* A film whose documents hold every node.
DefaultFilm ==
    [link |-> "ok", owner |-> "attr8", missing |-> {}, empty |-> {},
     failed |-> {}, broken |-> {}, fans |-> <<"1", ".", "2", "K">>,
     bars |-> TenBars, slug |-> 1]

RECURSIVE SubsetsUpTo(_, _)
\* The subsets of S of at most n elements.
SubsetsUpTo(S, n) ==
    IF n = 0 THEN {{}}
    ELSE LET R == SubsetsUpTo(S, n - 1)
         IN  R \cup {T \cup {x} : T \in R, x \in S}

\* The ways to fail the secondaries: any set answering with an error page
\* and at most one other raising.
FetchFailures ==
    UNION {{[failed |-> fl, broken |-> b] :
               b \in SubsetsUpTo(Secondaries \ fl, 1)} : fl \in SUBSET Secondaries}

\* Films with up to MaxMissing nodes missing or empty.
NodeFilms ==
    UNION {{[DefaultFilm EXCEPT !.missing = T \ e, !.empty = e] :
               e \in SUBSET (T \ {"fans"})} : T \in SubsetsUpTo(Nodes, MaxMissing)}

FilmInputs ==
    {[f EXCEPT !.failed = x.failed, !.broken = x.broken] :
        f \in NodeFilms, x \in FetchFailures}
    \cup {[DefaultFilm EXCEPT !.link = l, !.owner = o] :
             l \in {"ok", "nodiv", "noattr"},
             o \in {"attr0", "attr8", "stars", "badstars", "nospan"}}

HistInputs ==
    {[DefaultFilm EXCEPT !.bars = b, !.failed = fl] :
        b \in BarLists, fl \in {{}, {"hist"}}}

FansInputs ==
    {[DefaultFilm EXCEPT !.fans = t] : t \in SeqsUpTo(FansAlphabet, MaxFansLen)}

NoOutcome == [exc |-> "pending", dict |-> <<>>]

CrawlIdle ==
    /\ pc = "idle" /\ list_type = "list"
    /\ page_options = [star |-> FALSE, pages |-> <<>>]
    /\ concat = FALSE /\ ext = ".csv" /\ list_url = 0 /\ idx = 0
    /\ list_films = <<>> /\ err = "none" /\ out_file = "none"
    /\ fetched = <<>>

DiaryIdle ==
    /\ dpc = "idle" /\ raw = <<>> /\ rows = <<>> /\ dfile = "none"
    /\ dmsg = "none"

FilmIdle ==
    /\ fpc = "idle" /\ film = DefaultFilm /\ not_found = NaN
    /\ film_out = NoOutcome

\* One call scrape_film(film, not_found).
ScrapeFilm ==
    /\ fpc = "input"
    /\ film_out' = scrape_film(film, not_found)
    /\ fpc' = "done"
    /\ UNCHANGED <<film, not_found, crawlVars, diaryVars>>

InitFilmOn(inputs) ==
    /\ fpc = "input"
    /\ film \in inputs
    /\ not_found \in {NaN, None}
    /\ film_out = NoOutcome
    /\ CrawlIdle /\ DiaryIdle

InitFilm == InitFilmOn(FilmInputs)
InitHist == InitFilmOn(HistInputs)
InitFans == InitFilmOn(FansInputs)

NextFilm == ScrapeFilm

\* scrape_film over the node, link and owner-rating cases.
SpecFilm == InitFilm /\ [][NextFilm]_vars
\* scrape_film over the histogram bar lists.
SpecHist == InitHist /\ [][NextFilm]_vars
\* scrape_film over the fans texts.
SpecFans == InitFans /\ [][NextFilm]_vars

---------------------------------------------------------------------------
(* scrape_page and scrape_list on list pages *)

\* The <li> items a collection page may hold: a film whose documents are
\* complete, one whose histogram has two bars, one whose stats fragment is
\* answered with an error page.
FilmFull == DefaultFilm
FilmFewBars == [DefaultFilm EXCEPT !.bars = SubSeq(TenBars, 1, 2)]
FilmNoStats == [DefaultFilm EXCEPT !.failed = {"stats"}]
PageFilms == {FilmFull, FilmFewBars, FilmNoStats}

\* A URL is a number: 0 is the list_url scrape_list is given, page p of the
\* explicit mode is URL p, a "next" reference names any URL.  NoNext: the
\* page has no <a class="next">.
Urls == 0..(NumUrls - 1)
NoNext == -1

\* The items of the page served by fetch number k (from 0), each film with
\* a slug of its own.
Slugged(items, k) ==
    [i \in 1..Len(items) |-> [items[i] EXCEPT !.slug = k * (MaxItems + 1) + i]]

\* What requests.get may answer for a list page, as fetch number k:
\* exc (it raises), a non-200 status, or a page with or without its <ul>
\* of films, some <li> items and an optional next reference.
ListResponses(k) ==
    {[exc |-> TRUE, status |-> 0, table |-> FALSE, items |-> <<>>, next |-> NoNext]}
    \cup {[exc |-> FALSE, status |-> st, table |-> FALSE, items |-> <<>>,
           next |-> NoNext] : st \in {403, 404}}
    \cup {[exc |-> FALSE, status |-> 200, table |-> FALSE, items |-> <<>>,
           next |-> n] : n \in Urls \cup {NoNext}}
    \cup {[exc |-> FALSE, status |-> 200, table |-> TRUE,
           items |-> Slugged(it, k), next |-> n] :
              it \in SeqsUpTo(PageFilms, MaxItems), n \in Urls \cup {NoNext}}

\* Line 94.
NotFoundFor(e) == IF e = ".csv" THEN NaN ELSE None

\* scrape_film on the films a page may hold, tabulated once (the slug of
\* the item only sets Film_URL).
Scraped ==
    [f \in PageFilms, nf \in {NaN, None} |-> scrape_film(f, nf)]

\* Line 98: scrape_film(film, not_found) for an item of a page.
ScrapeItem(f, nf) ==
    LET out == Scraped[[f EXCEPT !.slug = DefaultFilm.slug], nf]
    IN  IF out.exc # "none" THEN out
        ELSE [out EXCEPT !.dict = ("Film_URL" :> V("str", f.slug, "film_url")) @@ @]

\* Lines 98-101 for one item: the dict appended, with List_URL under concat.
FilmDict(f, og_list_url, e, c) ==
    LET d == ScrapeItem(f, NotFoundFor(e)).dict
    IN  IF c THEN ("List_URL" :> V("str", og_list_url, "list_url")) @@ d ELSE d

\* Lines 102-104: the item is skipped when scrape_film raises.
FilmSkipped(f, e) == ScrapeItem(f, NotFoundFor(e)).exc # "none"

RECURSIVE PageLoop(_, _, _, _)
\* Lines 96-104: the for loop over the <li> items.
PageLoop(items, og_list_url, e, c) ==
    IF items = <<>> THEN <<>>
    ELSE (IF FilmSkipped(Head(items), e) THEN <<>>
          ELSE <<FilmDict(Head(items), og_list_url, e, c)>>)
         \o PageLoop(Tail(items), og_list_url, e, c)

\* scrape_page for a response that did not raise: [films, soup], soup
\* FALSE for the None of line 75.
scrape_page(resp, og_list_url, e, c) ==
    IF resp.status # 200 THEN [films |-> <<>>, soup |-> FALSE]
    ELSE IF ~resp.table \/ resp.items = <<>> THEN [films |-> <<>>, soup |-> TRUE]
    ELSE [films |-> PageLoop(resp.items, og_list_url, e, c), soup |-> TRUE]

\* The page's films put in front of the list instead of behind it.
ExtendInFront(films, page_films) == page_films \o films

\* Line 27 / line 39: list_films.extend(page_films).
Extend(films, page_films) == films \o page_films

IsFullCrawl(po) == po.pages = <<>>      \* page_options == [] or == "*"

\* Lines 15-24 and 34: scrape_list enters one of its three loops.
StartScrape ==
    /\ pc = "start"
    /\ pc' = IF list_type = "diary" THEN "diary"
             ELSE IF IsFullCrawl(page_options) THEN "full" ELSE "pages"
    /\ idx' = 1
    /\ UNCHANGED <<list_type, page_options, concat, ext, list_url, list_films,
                   err, out_file, fetched, filmVars, diaryVars>>

\* The history entry of one fetch.
Fetch(url, resp, films) ==
    [url |-> url, ok |-> ~resp.exc /\ resp.status = 200, status |-> resp.status,
     films |-> films,
     items |-> IF "items" \in DOMAIN resp THEN resp.items ELSE <<>>]

\* Lines 25-33: one turn of the while loop of the full crawl.
FullCrawlPage ==
    /\ pc = "full"
    /\ Len(fetched) < MaxFetches
    /\ \E resp \in ListResponses(Len(fetched)) :
         LET page == scrape_page(resp, list_url, ext, concat)
         IN  IF resp.exc
             THEN /\ pc' = "raised" /\ err' = "ConnectionError"      \* line 72
                  /\ fetched' = Append(fetched, Fetch(list_url, resp, <<>>))
                  /\ UNCHANGED <<list_films, list_url>>
             ELSE /\ list_films' = Extend(list_films, page.films)
                  /\ fetched' = Append(fetched, Fetch(list_url, resp, page.films))
                  /\ IF ~page.soup
                     THEN /\ pc' = "raised" /\ err' = "AttributeError"   \* line 30
                          /\ UNCHANGED list_url
                     ELSE IF resp.next = NoNext
                     THEN /\ pc' = "write"
                          /\ UNCHANGED <<err, list_url>>
                     ELSE /\ list_url' = resp.next                       \* line 33
                          /\ UNCHANGED <<pc, err>>
    /\ UNCHANGED <<list_type, page_options, concat, ext, idx, out_file,
                   filmVars, diaryVars>>

\* Lines 35-42: one turn of the for loop over the requested pages.
ExplicitPage ==
    /\ pc = "pages"
    /\ idx <= Len(page_options.pages)
    /\ \E resp \in ListResponses(Len(fetched)) :
         LET page == scrape_page(resp, list_url, ext, concat)
             url == page_options.pages[idx]
         IN  IF resp.exc
             THEN /\ fetched' = Append(fetched, Fetch(url, resp, <<>>))
                  /\ UNCHANGED list_films                        \* lines 40-42
             ELSE /\ list_films' = Extend(list_films, page.films)
                  /\ fetched' = Append(fetched, Fetch(url, resp, page.films))
    /\ idx' = idx + 1
    /\ pc' = IF idx = Len(page_options.pages) THEN "write" ELSE "pages"
    /\ UNCHANGED <<list_type, page_options, concat, ext, list_url, err, out_file,
                   filmVars, diaryVars>>

\* csv.DictWriter raises ValueError for a row with a key that is not among
\* fieldnames (the keys of the first record).
RowsFit(films) ==
    \A i \in 1..Len(films) : DOMAIN films[i] \subseteq DOMAIN films[1]

\* Lines 44-58: the results are written and returned.
WriteResults ==
    /\ pc = "write"
    /\ IF list_films # <<>>
       THEN IF RowsFit(list_films)
            THEN /\ out_file' = "written" /\ pc' = "done" /\ UNCHANGED err
            ELSE /\ out_file' = "partial" /\ pc' = "raised" /\ err' = "ValueError"
       ELSE /\ pc' = "done" /\ UNCHANGED <<out_file, err>>
    /\ UNCHANGED <<list_type, page_options, concat, ext, list_url, idx,
                   list_films, fetched, filmVars, diaryVars>>

---------------------------------------------------------------------------
(* scrape_diary *)

\* Lines 1-6: the names the module imports; "time" is not among them, so
\* the time.sleep of line 415 raises NameError.
TimeImported == FALSE

\* The page "*" of `for page in "*"`.
StarPage == 0

\* Lines 317-320.
PagesToScrape(po) ==
    IF po.star THEN <<StarPage>>
    ELSE IF po.pages = <<>> THEN <<1>> ELSE po.pages

\* The entry elements of a diary page: "full" holds every tag, "bare" none
\* of them, "badrating" a data-rating attribute that is no number.
DiaryEntries == {"full", "bare", "badrating"}

\* Lines 360-408 for one entry element: the dict appended.
DiaryDict(e) ==
    IF e = "full"
    THEN [date |-> VStr("date"), film_title |-> VStr("title"),
          year |-> VStr("1999"), rating |-> VFloat(7, ""),
          review |-> VStr("review"), film_url |-> VStr("film_url"),
          director |-> VStr("")]
    ELSE [date |-> VStr(""), film_title |-> VStr(""), year |-> VStr(""),
          rating |-> None, review |-> VStr(""), film_url |-> VStr(""),
          director |-> VStr("")]

\* Lines 409-412: float(rating_tag['data-rating']) raises, the entry is skipped.
DiarySkipped(e) == e = "badrating"

RECURSIVE DiaryLoop(_)
\* Lines 359-412: the for loop over the entries of one page.
DiaryLoop(entries) ==
    IF entries = <<>> THEN <<>>
    ELSE (IF DiarySkipped(Head(entries)) THEN <<>> ELSE <<DiaryDict(Head(entries))>>)
         \o DiaryLoop(Tail(entries))

DiaryResponses ==
    {[exc |-> TRUE, status |-> 0, entries |-> <<>>]}
    \cup {[exc |-> FALSE, status |-> st, entries |-> <<>>] : st \in {403, 404}}
    \cup {[exc |-> FALSE, status |-> 200, entries |-> en] :
             en \in SeqsUpTo(DiaryEntries, MaxItems)}

\* Lines 417-420: what scrape_diary returns for the films it collected.
DiaryReturn(films) ==
    IF films = <<>> THEN <<[note |-> VStr("no diary entries found")]>> ELSE films

\* Lines 322-415 and 417-420: one turn of the for loop over the pages of
\* scrape_diary; after the last page scrape_diary returns into list_films.
DiaryPage ==
    /\ pc = "diary"
    /\ idx <= Len(PagesToScrape(page_options))
    /\ \E resp \in DiaryResponses :
         LET films == Extend(list_films, DiaryLoop(resp.entries))
             last == idx = Len(PagesToScrape(page_options))
         IN  /\ fetched' = Append(fetched,
                                   Fetch(PagesToScrape(page_options)[idx], resp,
                                         DiaryLoop(resp.entries)))
             /\ IF resp.exc
                THEN /\ pc' = "raised" /\ err' = "ConnectionError"      \* line 331
                     /\ UNCHANGED list_films
                ELSE IF resp.status # 200 \/ resp.entries = <<>>
                THEN /\ pc' = IF last THEN "write" ELSE "diary"         \* continue
                     /\ list_films' = IF last THEN DiaryReturn(list_films)
                                      ELSE list_films
                     /\ UNCHANGED err
                ELSE IF ~TimeImported
                THEN /\ pc' = "raised" /\ err' = "NameError"            \* line 415
                     /\ list_films' = films
                ELSE /\ pc' = IF last THEN "write" ELSE "diary"
                     /\ list_films' = IF last THEN DiaryReturn(films) ELSE films
                     /\ UNCHANGED err
    /\ idx' = idx + 1
    /\ UNCHANGED <<list_type, page_options, concat, ext, list_url, out_file,
                   filmVars, diaryVars>>

\* The page selections: [] and "*", and the lists of up to MaxPages pages.
PageOptions ==
    {[star |-> b, pages |-> <<>>] : b \in BOOLEAN}
    \cup {[star |-> FALSE, pages |-> ps] :
             ps \in SeqsUpTo(1..NumUrls, MaxPages) \ {<<>>}}

Init ==
    /\ pc = "start"
    /\ list_type \in {"list", "diary"}
    /\ page_options \in PageOptions
    /\ concat \in BOOLEAN
    /\ ext \in {".csv", ".json"}
    /\ list_url = 0
    /\ idx = 0
    /\ list_films = <<>>
    /\ err = "none"
    /\ out_file = "none"
    /\ fetched = <<>>
    /\ FilmIdle /\ DiaryIdle

Next ==
    \/ StartScrape
    \/ FullCrawlPage
    \/ ExplicitPage
    \/ DiaryPage
    \/ WriteResults

\* One call of scrape_list.
Spec == Init /\ [][Next]_vars

---------------------------------------------------------------------------
(* Properties of scrape_list *)

ListMode == list_type # "diary"
FullMode == ListMode /\ IsFullCrawl(page_options)
ExplicitMode == ListMode /\ ~IsFullCrawl(page_options)
Ended == pc \in {"done", "raised"}

\* C1: in full-crawl mode a "next" reference to a URL already fetched in
\* this crawl ends the crawl: no URL is fetched a second time.
C1_NoUrlFetchedTwice ==
    FullMode =>
        \A i, j \in 1..Len(fetched) : i # j => fetched[i].url # fetched[j].url

RECURSIVE ConcatFilms(_)
\* The films of the pages that fetched successfully, in fetch order.
ConcatFilms(log) ==
    IF log = <<>> THEN <<>>
    ELSE (IF Head(log).ok THEN Head(log).films ELSE <<>>) \o ConcatFilms(Tail(log))

\* C2: in explicit-pages mode, whichever pages fail to fetch, the call
\* raises no error, every requested page is fetched, and the list returned
\* is the concatenation, in requested order, of the films of the pages that
\* fetched successfully.
C2_ExplicitPagesTolerant ==
    ExplicitMode =>
        /\ pc # "raised"
        /\ pc = "done" =>
              /\ [i \in 1..Len(fetched) |-> fetched[i].url] = page_options.pages
              /\ list_films = ConcatFilms(fetched)

\* The keys of film_dict filled from each secondary resource.
SecondaryKeys(sec) ==
    CASE sec = "detail" ->
            {"Film_title", "Release_year", "Director", "Cast", "Average_rating",
             "Genres", "Runtime", "Countries", "Original_language",
             "Spoken_languages", "Description", "Studios"}
      [] sec = "stats" -> {"Watches", "List_appearances", "Likes"}
      [] sec = "hist" -> {"Fans", "Total_ratings"} \cup {val2stars(i) : i \in 0..9}

\* The film record of item f degrades the secondaries that failed to
\* sentinels and reads the others as if nothing had failed.
Degraded(d, f, nf) ==
    LET whole == scrape_film([f EXCEPT !.failed = {}, !.broken = {}], nf).dict
    IN  \A sec \in Secondaries :
          \A k \in SecondaryKeys(sec) :
             /\ k \in DOMAIN d
             /\ IF sec \in f.failed \cup f.broken
                THEN d[k] \in {nf, VInt(0)}
                ELSE d[k] = whole[k]

\* C4: a film one of whose secondary fetches failed is still appended to
\* the page's result, with sentinels for that secondary and the other
\* fields read normally: scrape_page returns as many records as the page
\* has <li> items.
C4_DegradedFilmsKept ==
    ListMode =>
        \A n \in 1..Len(fetched) :
           (fetched[n].ok /\
            \A i \in 1..Len(fetched[n].items) :
               Cardinality(fetched[n].items[i].failed
                           \cup fetched[n].items[i].broken) <= 1)
           => /\ Len(fetched[n].films) = Len(fetched[n].items)
              /\ \A i \in 1..Len(fetched[n].items) :
                    Degraded(fetched[n].films[i], fetched[n].items[i],
                             NotFoundFor(ext))

\* The declared schema of a list record and of a diary record.
ListKeys ==
    UNION {SecondaryKeys(sec) : sec \in Secondaries}
    \cup {"Owner_rating", "Film_URL"}
DiaryKeys ==
    {"date", "film_title", "year", "rating", "review", "film_url", "director"}

\* C5: every record of the list returned by a call carries the full key
\* set: all scalar fields and all 10 histogram buckets for a list, the seven
\* diary keys for a diary.
C5_FullKeySet ==
    pc = "done" =>
        \A i \in 1..Len(list_films) :
           DOMAIN list_films[i] =
              IF list_type = "diary" THEN DiaryKeys
              ELSE ListKeys \cup (IF concat THEN {"List_URL"} ELSE {})

\* The collection page itself is answered with the forbidden status.
Forbidden == Len(fetched) >= 1 /\ fetched[1].status = 403

\* C8: a private or forbidden collection ends the crawl with the distinct
\* PrivateOrForbiddenCollection condition, zero records and no output file;
\* it is never turned into an empty or degraded result.
C8_ForbiddenIsReported ==
    (Forbidden /\ Ended) =>
        /\ pc = "raised" /\ err = "PrivateOrForbiddenCollection"
        /\ list_films = <<>> /\ out_file = "none"

---------------------------------------------------------------------------
(* Properties of scrape_film *)

Returned == fpc = "done" /\ film_out.exc = "none"

\* The node each field of film_dict is read from.
FieldNode ==
    [Film_title |-> "title", Release_year |-> "releaseyear",
     Director |-> "director", Cast |-> "cast", Average_rating |-> "avg_rating",
     Genres |-> "genres", Runtime |-> "runtime", Countries |-> "countries",
     Original_language |-> "languages", Spoken_languages |-> "languages",
     Description |-> "description", Studios |-> "studios",
     Watches |-> "watched", List_appearances |-> "inlists", Likes |-> "liked"]

\* The item and its fetches are sound: only nodes may be missing.
OnlyNodesMissing(f) ==
    f.link = "ok" /\ f.failed = {} /\ f.broken = {} /\ f.empty = {}

\* C3: extraction is isolated per field: when no node matches field X,
\* scrape_film still returns a record, X holds the not_found sentinel and
\* every other field has the value it has when X matches.
C3_FieldIsolation ==
    (fpc = "done" /\ OnlyNodesMissing(film)) =>
        \A X \in DOMAIN FieldNode :
           FieldNode[X] \in film.missing =>
              /\ film_out.exc = "none"
              /\ film_out.dict[X] = not_found
              /\ LET with == scrape_film(
                                [film EXCEPT !.missing = @ \ {FieldNode[X]}],
                                not_found)
                 IN  with.exc = "none" =>
                        \A Y \in DOMAIN with.dict :
                           FieldNode[Y] # FieldNode[X]
                              => film_out.dict[Y] = with.dict[Y]

\* The bucket keys a record holds.
BucketKeys(d) == DOMAIN d \cap {val2stars(i) : i \in 0..9}

RECURSIVE SumCounts(_, _)
\* Sum of the counts d holds under the keys K.
SumCounts(d, K) ==
    IF K = {} THEN 0
    ELSE LET k == CHOOSE k \in K : TRUE
         IN  d[k].n + SumCounts(d, K \ {k})

\* C6: in every record scrape_film returns, Total_ratings is the sum of the
\* counts under the record's bucket keys, every bucket holds a non-negative
\* integer, a bar with empty text counts 0, and without bars all 10 buckets
\* and Total_ratings are 0.
C6_TotalIsSumOfBuckets ==
    Returned =>
        LET d == film_out.dict
            bars == BarsOf(film)
        IN  /\ d["Total_ratings"] = VInt(SumCounts(d, BucketKeys(d)))
            /\ \A k \in BucketKeys(d) : d[k].t = "int" /\ d[k].n \in Nat
            /\ \A i \in 1..Len(bars) :
                  bars[i] = <<>> => d[val2stars(i - 1)] = VInt(0)
            /\ bars = <<>> =>
                  /\ BucketKeys(d) = {val2stars(i) : i \in 0..9}
                  /\ \A k \in BucketKeys(d) : d[k] = VInt(0)
                  /\ d["Total_ratings"] = VInt(0)

\* A record was returned for a histogram with an empty bar and two bars
\* of positive count.
C6_Witness ==
    /\ Returned
    /\ \E i, j, k \in 1..Len(film.bars) :
          /\ i # j
          /\ film.bars[k] = <<>>
          /\ film_out.dict[val2stars(i - 1)].n > 0
          /\ film_out.dict[val2stars(j - 1)].n > 0
    /\ film_out.dict["Total_ratings"].n > 0

\* A comma-grouped digit string: one to three digits, then groups of a
\* comma and three digits.
RECURSIVE IsGroupTail(_)
IsGroupTail(t) ==
    \/ t = <<>>
    \/ /\ Len(t) >= 4 /\ t[1] = "," /\ IsDigits(SubSeq(t, 2, 4))
       /\ IsGroupTail(SubSeq(t, 5, Len(t)))
IsCommaGrouped(t) ==
    \E k \in 1..3 :
       /\ Len(t) > k /\ IsDigits(SubSeq(t, 1, k))
       /\ IsGroupTail(SubSeq(t, k + 1, Len(t)))

\* The text without its commas.
StripCommas(t) == SelectSeq(t, LAMBDA c : c # ",")

\* A decimal, with or without a decimal point, followed by K.
IsKSuffixed(t) ==
    Len(t) >= 2 /\ t[Len(t)] = "K" /\ IsFloat(SubSeq(t, 1, Len(t) - 1))

\* C7: the Fans parsing never raises and yields the integer without its
\* separators for a comma-grouped digit string, 1000 times the decimal for
\* a K-suffixed one, the integer for a digit string and 0 for an empty or
\* non-numeric text.
C7_CompactNumber ==
    fpc = "done" =>
        /\ film_out.exc = "none"
        /\ LET t == film.fans
               fans == film_out.dict["Fans"]
           IN  /\ IsCommaGrouped(t) => fans = VInt(DigitsToInt(StripCommas(t)))
               /\ IsKSuffixed(t) =>
                     fans = VInt(FloatTimes1000(SubSeq(t, 1, Len(t) - 1)))
               /\ IsDigits(t) => fans = VInt(DigitsToInt(t))
               /\ MatchStarts(t) = {} => fans = VInt(0)

---------------------------------------------------------------------------
(* diary.py __main__: normalization and export of the diary entries *)

\* Line 117.
fieldnames == <<"name", "slug", "id", "release", "runtime", "rewatched",
                "rating", "liked", "reviewed", "date">>
EntryFields == {"name", "slug", "id", "release", "runtime"}
ActionFields == {"rewatched", "rating", "liked", "reviewed"}

DigitStr == <<"0", "1", "2", "3", "4", "5", "6", "7", "8", "9">>

RECURSIVE IntStr(_)
\* str(n) for an int n >= 0.
IntStr(n) ==
    IF n < 10 THEN DigitStr[n + 1] ELSE IntStr(n \div 10) \o DigitStr[(n % 10) + 1]

RECURSIVE Padded(_, _)
\* f"{n:0wd}"
Padded(n, w) == IF w <= 1 \/ n >= Pow10(w - 1) THEN IntStr(n)
                ELSE "0" \o Padded(n, w - 1)

\* bool(v)
Truthy(v) ==
    CASE v.t \in {"absent", "none"} -> FALSE
      [] v.t \in {"bool", "int"} -> v.n # 0
      [] v.t = "str" -> v.s # ""
      [] OTHER -> TRUE

\* str(v) of a scalar.
PyStr(v) ==
    CASE v.t = "int" -> IntStr(v.n)
      [] v.t = "str" -> v.s
      [] v.t = "bool" -> IF v.n = 1 THEN "True" ELSE "False"
      [] OTHER -> "None"

\* entry.get(k, '') or ''   (lines 134-138)
GetOrEmpty(v) == IF Truthy(v) THEN v ELSE VStr("")

\* actions.get(k, '')        (lines 139-142)
GetDefault(v) == IF v.t = "absent" THEN VStr("") ELSE v

\* Lines 146-152: the cell written for the value v of the row.
Coerce(v) ==
    IF v.t = "bool" THEN VStr(IF v.n = 1 THEN "1" ELSE "0")
    ELSE IF v.t = "none" THEN VStr("")
    ELSE VStr(PyStr(v))

(* A sub-record (one diary entry) e:
     e.name .. e.runtime  the values under these keys (Absent: no such key)
     e.actions            [isdict, rewatched, rating, liked, reviewed]: the
                          value under 'actions' and, when it is a dict, the
                          values under its keys
     e.date               [kind, year, month, day]: kind is "absent", "scalar"
                          (a string such as "2024-01-02"), or "dict" with the
                          values under its three keys                       *)
NoActions == [isdict |-> FALSE, rewatched |-> Absent, rating |-> Absent,
              liked |-> Absent, reviewed |-> Absent]
NoDate == [kind |-> "absent", year |-> Absent, month |-> Absent, day |-> Absent]

\* A dict without any of the keys the export reads.
BlankEntry ==
    [name |-> Absent, slug |-> Absent, id |-> Absent, release |-> Absent,
     runtime |-> Absent, actions |-> NoActions, date |-> NoDate]

\* int(v) succeeds (line 127).
IntCoercible(v) == v.t \in {"int", "bool"}

\* str(date_obj) of a non-empty dict: its repr.
DateRepr == "{date}"

\* Lines 123-131: date_str.
DateStr(d) ==
    IF d.kind # "dict" THEN ""                       \* date_obj = {}
    ELSE IF \A p \in {d.year, d.month, d.day} : p.t \notin {"absent", "none"}
    THEN IF \A p \in {d.year, d.month, d.day} : IntCoercible(p)
         THEN Padded(d.year.n, 4) \o "-" \o Padded(d.month.n, 2)
              \o "-" \o Padded(d.day.n, 2)
         ELSE DateRepr                               \* line 129
    ELSE IF \E p \in {d.year, d.month, d.day} : p.t # "absent"
    THEN DateRepr                                    \* line 131, non-empty dict
    ELSE ""

\* Lines 122 and 133-144: the row before coercion.
RawRow(e) ==
    [k \in {fieldnames[i] : i \in 1..Len(fieldnames)} |->
        IF k \in EntryFields THEN GetOrEmpty(e[k])
        ELSE IF k \in ActionFields
             THEN IF e.actions.isdict THEN GetDefault(e.actions[k]) ELSE VStr("")
        ELSE VStr(DateStr(e.date))]

\* Lines 133-153: the row handed to writer.writerow.
Row(e) == [k \in DOMAIN RawRow(e) |-> Coerce(RawRow(e)[k])]

(* The raw structure is [kind, items]: kind "dict" or "list" with items
   [key, val] (key "" in a list), "other" (a truthy value of another type),
   "none" (None or another falsy scalar), "private" and "error" (the
   property raises PrivateRouteError, another exception).  A value val is
   [t, es]: "scalar", "entry" (a dict, es its one sub-record), "map" (a dict
   of id to the items es) or "list" (the items es); an item of es is
   [isdict, e].                                                            *)
IsDictVal(v) == v.t \in {"entry", "map"}

Elem(e) == [isdict |-> TRUE, e |-> e]
NonDictElem == [isdict |-> FALSE, e |-> BlankEntry]

\* The dict-valued fields of a sub-record, as items.
DictFieldsOf(e) ==
    (IF e.actions.isdict THEN <<Elem(BlankEntry)>> ELSE <<>>)
    \o (IF e.date.kind = "dict" THEN <<Elem(BlankEntry)>> ELSE <<>>)

\* list(v.values()) for a dict v.
ValuesOf(v) == IF v.t = "map" THEN v.es ELSE DictFieldsOf(v.es[1].e)

\* The value v as an item of entries_list.
AsElem(v) ==
    IF v.t = "entry" THEN v.es[1]
    ELSE IF v.t = "map" THEN Elem(BlankEntry)
    ELSE NonDictElem

RECURSIVE FlattenLists(_)
\* Lines 103-105: the lists among the values, concatenated.
FlattenLists(items) ==
    IF items = <<>> THEN <<>>
    ELSE (IF Head(items).val.t = "list" THEN Head(items).val.es ELSE <<>>)
         \o FlattenLists(Tail(items))

\* Lines 103-105 with possible_lists[0] in place of the flattening.
RECURSIVE FirstListOnly(_)
FirstListOnly(items) ==
    IF items = <<>> THEN <<>>
    ELSE IF Head(items).val.t = "list" THEN Head(items).val.es
    ELSE FirstListOnly(Tail(items))

\* Lines 103-107: the fallback for a dict.
ListsInside(items) == FlattenLists(items)

HasEntriesDict(items) ==
    \E i \in 1..Len(items) : items[i].key = "entries" /\ IsDictVal(items[i].val)

EntriesVal(items) ==
    items[CHOOSE i \in 1..Len(items) : items[i].key = "entries"].val

\* Lines 94-111: entries_list before the filter.
EntriesList(r) ==
    IF r.kind = "dict"
    THEN IF HasEntriesDict(r.items) THEN ValuesOf(EntriesVal(r.items))
         ELSE IF \A i \in 1..Len(r.items) : IsDictVal(r.items[i].val)
         THEN [i \in 1..Len(r.items) |-> AsElem(r.items[i].val)]
         ELSE ListsInside(r.items)
    ELSE IF r.kind = "list"
    THEN [i \in 1..Len(r.items) |-> AsElem(r.items[i].val)]
    ELSE <<>>

\* Line 114.
OnlyDicts(es) == SelectSeq(es, LAMBDA x : x.isdict)

\* bool(entries) of line 88.
RawTruthy(r) ==
    CASE r.kind \in {"dict", "list"} -> r.items # <<>>
      [] r.kind = "other" -> TRUE
      [] OTHER -> FALSE

\* Lines 71-161: the script from the fetch of the entries on.
RunDiary ==
    /\ dpc = "input"
    /\ dpc' = "done"
    /\ IF raw.kind = "private"
       THEN /\ dmsg' = "private" /\ UNCHANGED <<rows, dfile>>       \* line 158
       ELSE IF raw.kind = "error"
       THEN /\ dmsg' = "failed" /\ UNCHANGED <<rows, dfile>>        \* line 160
       ELSE IF ~RawTruthy(raw)
       THEN /\ dmsg' = "no entries" /\ UNCHANGED <<rows, dfile>>    \* line 156
       ELSE LET entries_list == OnlyDicts(EntriesList(raw))
            IN  /\ rows' = [i \in 1..Len(entries_list) |-> Row(entries_list[i].e)]
                /\ dfile' = "written"
                /\ dmsg' = "saved"
    /\ UNCHANGED <<raw, crawlVars, filmVars>>

---------------------------------------------------------------------------
(* Inputs of the diary export *)

PyVals == {Absent, None, VBool(TRUE), VBool(FALSE), VInt(0), VInt(7),
           VStr(""), VStr("x")}

FullEntry ==
    [name |-> VStr("film"), slug |-> VStr("film-slug"), id |-> VInt(12),
     release |-> VInt(1999), runtime |-> VInt(90),
     actions |-> [isdict |-> TRUE, rewatched |-> VBool(FALSE),
                  rating |-> VInt(8), liked |-> VBool(TRUE),
                  reviewed |-> VBool(FALSE)],
     date |-> [kind |-> "dict", year |-> VInt(2024), month |-> VInt(3),
               day |-> VInt(9)]]

DateParts == {VInt(5), None, Absent, VStr("x")}

\* Sub-records that differ from FullEntry in one field, in the actions or
\* in the date.
EntryVariants ==
    {[FullEntry EXCEPT ![k] = v] : k \in EntryFields, v \in PyVals}
    \cup {[FullEntry EXCEPT !.actions[k] = v] : k \in ActionFields, v \in PyVals}
    \cup {[FullEntry EXCEPT !.actions = NoActions]}
    \cup {[FullEntry EXCEPT !.date = [kind |-> kd, year |-> Absent,
                                      month |-> Absent, day |-> Absent]] :
             kd \in {"absent", "scalar"}}
    \cup {[FullEntry EXCEPT !.date = [kind |-> "dict", year |-> y, month |-> m,
                                      day |-> d]] :
             y \in DateParts, m \in DateParts, d \in DateParts}

SubItems == {Elem(FullEntry), NonDictElem}

TopVals ==
    {[t |-> "scalar", es |-> <<>>], [t |-> "entry", es |-> <<Elem(FullEntry)>>]}
    \cup {[t |-> tt, es |-> es] :
             tt \in {"map", "list"}, es \in SeqsUpTo(SubItems, MaxSub)}

\* The keys of a raw dict, in insertion order.
TopKeys == <<"a", "b", "entries">>
KeySeqs ==
    {ks \in SeqsUpTo({TopKeys[i] : i \in 1..Len(TopKeys)}, MaxTop) :
        \A i, j \in 1..Len(ks) :
           i < j => \E a, b \in 1..Len(TopKeys) :
                       a < b /\ TopKeys[a] = ks[i] /\ TopKeys[b] = ks[j]}

\* A raw dict with the keys ks and the values vs, a raw list of the items vs.
RawDict(ks, vs) ==
    [kind |-> "dict",
     items |-> [i \in 1..Len(ks) |-> [key |-> ks[i], val |-> vs[i]]]]
RawList(vs) ==
    [kind |-> "list", items |-> [i \in 1..Len(vs) |-> [key |-> "", val |-> vs[i]]]]

\* {'entries': {id: e}} for a sub-record e.
Nested(e) ==
    [kind |-> "dict",
     items |-> <<[key |-> "entries", val |-> [t |-> "map", es |-> <<Elem(e)>>]]>>]

\* What Diary(username).entries may yield: a dict or a list of up to MaxTop
\* values, one sub-record under "entries", another value ("other", "none"),
\* or an exception ("private", "error").
DiaryInput(r) ==
    \/ \E ks \in KeySeqs : \E vs \in [1..Len(ks) -> TopVals] : r = RawDict(ks, vs)
    \/ \E vs \in SeqsUpTo(TopVals, MaxTop) : r = RawList(vs)
    \/ \E e \in EntryVariants : r = Nested(e)
    \/ \E k \in {"other", "none", "private", "error"} : r = [kind |-> k, items |-> <<>>]

InitDiary ==
    /\ dpc = "input"
    /\ DiaryInput(raw)
    /\ rows = <<>>
    /\ dfile = "none"
    /\ dmsg = "none"
    /\ CrawlIdle /\ FilmIdle

NextDiary == RunDiary

\* One run of the diary export script.
SpecDiary == InitDiary /\ [][NextDiary]_vars

---------------------------------------------------------------------------
(* Properties of the diary export *)

Normalized == dpc = "done" /\ raw.kind \notin {"private", "error"}

FieldSet == {fieldnames[i] : i \in 1..Len(fieldnames)}

IsSubRecords(es) == \A i \in 1..Len(es) : es[i].isdict

RECURSIVE CountDicts(_)
CountDicts(es) ==
    IF es = <<>> THEN 0
    ELSE (IF Head(es).isdict THEN 1 ELSE 0) + CountDicts(Tail(es))

RECURSIVE TotalInLists(_)
\* The number of sub-records in the sequences a mapping holds.
TotalInLists(items) ==
    IF items = <<>> THEN 0
    ELSE (IF Head(items).val.t = "list" THEN CountDicts(Head(items).val.es) ELSE 0)
         + TotalInLists(Tail(items))

\* The input shapes of the claim.
\* A mapping of id to sub-record, with n = Len(r.items) entries.
KeyedShape(r) ==
    r.kind = "dict" /\ \A i \in 1..Len(r.items) : r.items[i].val.t = "entry"
\* The same mapping nested under an "entries" key.
NestedShape(r) ==
    /\ r.kind = "dict"
    /\ \E i \in 1..Len(r.items) :
          /\ r.items[i].key = "entries" /\ r.items[i].val.t = "map"
          /\ IsSubRecords(r.items[i].val.es)
\* A flat mapping keyed by canonical field names: its values are scalars.
FlatShape(r) ==
    /\ r.kind = "dict" /\ r.items # <<>>
    /\ \A i \in 1..Len(r.items) : r.items[i].val.t = "scalar"
\* A mapping whose values are sequences of sub-records.
SeqShape(r) ==
    /\ r.kind = "dict" /\ r.items # <<>>
    /\ \A i \in 1..Len(r.items) :
          r.items[i].val.t = "list" /\ IsSubRecords(r.items[i].val.es)

RowsWellFormed ==
    /\ dmsg # "failed"
    /\ \A i \in 1..Len(rows) : DOMAIN rows[i] = FieldSet

HasKey(r, k) == \E i \in 1..Len(r.items) : r.items[i].key = k
\* A mapping whose "entries" key holds a mapping.
EntriesShape(r) ==
    r.kind = "dict" /\ \E i \in 1..Len(r.items) :
                          r.items[i].key = "entries" /\ IsDictVal(r.items[i].val)
\* A non-empty mapping all of whose values are mappings.
AllMappingsShape(r) ==
    /\ r.kind = "dict" /\ r.items # <<>> /\ ~EntriesShape(r)
    /\ \A i \in 1..Len(r.items) : IsDictVal(r.items[i].val)
\* Any other mapping.
OtherMapping(r) ==
    r.kind = "dict" /\ ~EntriesShape(r) /\ ~AllMappingsShape(r)

RawValue(e, k) ==
    IF k \in EntryFields THEN e[k]
    ELSE IF k \in ActionFields
         THEN IF e.actions.isdict THEN e.actions[k] ELSE Absent
    ELSE IF e.date.kind = "absent" THEN Absent
    ELSE VStr("2024-01-02")

\* The rendering the claim gives for a raw scalar.
Rendered(v) ==
    CASE v.t = "bool" -> VStr(IF v.n = 1 THEN "1" ELSE "0")
      [] v.t \in {"absent", "none"} -> VStr("")
      [] OTHER -> VStr(PyStr(v))

\* C10: the cell of every canonical field is "1"/"0" for a boolean, "" for
\* an absent key or None, and str(v) for every other value v, 0 and other
\* falsy values included; every cell is a string.
C10_ScalarCoercion ==
    (dpc = "done" /\ raw \in {Nested(e) : e \in EntryVariants}) =>
        LET e == raw.items[1].val.es[1].e
        IN  /\ Len(rows) = 1
            /\ \A k \in FieldSet :
                  /\ rows[1][k].t = "str"
                  /\ (k # "date" \/ e.date.kind # "dict")
                        => rows[1][k] = Rendered(RawValue(e, k))

---------------------------------------------------------------------------
(* Properties of the crawl loops: diary pages, failed pages, ordering *)

DiaryExplicit ==
    list_type = "diary" /\ ~page_options.star /\ page_options.pages # <<>>

\* Every fetch so far was answered (requests.get did not raise).
AllAnswered == \A i \in 1..Len(fetched) : fetched[i].status # 0

\* C11: in diary mode with an explicit page list the call returns without
\* raising; pages after a page with a non-200 status or without entries are
\* still fetched, and the result holds the entries of the pages answered
\* with 200, in requested page order.
C11_DiaryPagesTolerant ==
    (DiaryExplicit /\ AllAnswered) =>
        /\ pc # "raised"
        /\ pc = "done" =>
              /\ [i \in 1..Len(fetched) |-> fetched[i].url] = page_options.pages
              /\ list_films = ConcatFilms(fetched)

\* A fetch answered with a non-200 status.
FailedFetch(e) == e.status \notin {0, 200}

\* C12: in full-crawl mode a page answered with a non-200 status adds no
\* item and ends the crawl without an error: it is the last page fetched,
\* and the records of the pages before it are written and returned.
C12_FailedPageEndsCrawl ==
    (FullMode /\ \E i \in 1..Len(fetched) : FailedFetch(fetched[i])) =>
        /\ FailedFetch(fetched[Len(fetched)])
        /\ fetched[Len(fetched)].films = <<>>
        /\ pc \in {"write", "done"}
        /\ err = "none"
        /\ list_films = ConcatFilms(fetched)

RECURSIVE Discovered(_)
\* The <li> items of the pages fetched, in fetch order and page order.
Discovered(log) ==
    IF log = <<>> THEN <<>> ELSE Head(log).items \o Discovered(Tail(log))

RECURSIVE KeptSlugs(_, _)
\* The slugs of the items whose parse did not fail, in the items' order.
KeptSlugs(items, e) ==
    IF items = <<>> THEN <<>>
    ELSE (IF FilmSkipped(Head(items), e) THEN <<>> ELSE <<Head(items).slug>>)
         \o KeptSlugs(Tail(items), e)

\* The items the records of list_films were made from.
RecordSlugs == [i \in 1..Len(list_films) |-> list_films[i]["Film_URL"].n]

\* C13: the list of scrape_list keeps discovery order.  Its records are
\* those of the discovered items whose parse did not fail, pages in fetch
\* order and items in the order of their page; no discovered item yields
\* two records.
C13_DiscoveryOrder ==
    ListMode =>
        /\ RecordSlugs = KeptSlugs(Discovered(fetched), ext)
        /\ \A i, j \in 1..Len(list_films) :
              i < j => RecordSlugs[i] # RecordSlugs[j]

\* scrape_list returned the records of two pages, having dropped an item
\* on the first.
C13_Witness ==
    /\ ListMode /\ pc = "done" /\ Len(fetched) = 2
    /\ Len(fetched[1].items) = 2 /\ Len(fetched[1].films) = 1
    /\ Len(fetched[2].films) >= 1
    /\ Len(list_films) >= 2

=============================================================================
